---- MODULE Spec2Model ----
(***************************************************************************)
(* A model of CLIAssistant (src/cli_assistant.py): the three persisted     *)
(* collections (notes, todos, history), the JSON store, the history log    *)
(* and the dispatcher.  Every process p has its own in-memory collections; *)
(* the three data files and the clock are shared by all processes.         *)
(*                                                                         *)
(* pc[p]            "new", "running", "exited" or "crashed"                *)
(* command_line[p]  the tokens of the line run() read last                 *)
(* notes, todos, history [p]   self.notes, self.todos, self.history        *)
(* out[p]           what the last turn printed                             *)
(* notesFile, todosFile, historyFile   the content of the three files      *)
(* clock            the reading datetime.now() gives next                  *)
(* io[p], failed, actor, before   a record of the last turn, kept for the  *)
(*                  properties: the writes it made and how they ended, the *)
(*                  files a write has failed on, who took the turn, and    *)
(*                  what that process saw when the turn began              *)
(***************************************************************************)
EXTENDS Integers, Sequences, FiniteSets, TLC

VARIABLES pc, command_line, notes, todos, history, out, io,
          notesFile, todosFile, historyFile, clock, failed,
          actor, before

vars == <<pc, command_line, notes, todos, history, out, io,
          notesFile, todosFile, historyFile, clock, failed, actor, before>>

\* ------------------------------------------------------------------ bounds
\* Number of datetime.now() readings a run may take.
MaxClock == 2
MaxClockTodo == 5
MaxClockNote == 7
MaxClockAny == 2
MaxClockTwo == 4

\* self.history[-100:]
HistoryLimit == 100

Procs == {1, 2}
Main == 1

\* ------------------------------------------------------------------ values
\* A JSON value: its top-level shape and its content.  A dict is a function
\* from keys to values, a list is a sequence.
EmptyDict == [shape |-> "dict", val |-> <<>>]
EmptyList == [shape |-> "list", val |-> <<>>]

\* The content of a data file: absent, not parseable as JSON, or a JSON text.
Missing == [kind |-> "missing", shape |-> "none", val |-> <<>>]
Malformed == [kind |-> "malformed", shape |-> "none", val |-> <<>>]
Dump(data) == [kind |-> "json", shape |-> data.shape, val |-> data.val]

Max(a, b) == IF a >= b THEN a ELSE b

\* seq[-n:]
LastN(seq, n) == SubSeq(seq, Max(1, Len(seq) - n + 1), Len(seq))

\* ' '.join(args)
RECURSIVE Join(_)
Join(args) ==
  IF args = <<>> THEN ""
  ELSE IF Len(args) = 1 THEN args[1]
  ELSE args[1] \o " " \o Join(Tail(args))

\* str.lower() on the tokens of the input vocabulary
Lower(s) ==
  CASE s = "Time" -> "time"
    [] s = "ADD" -> "add"
    [] s = "Done" -> "done"
    [] OTHER -> s

\* int(s): the tokens int() accepts, and their values; any other raises ValueError
IntTokens == {"-1", "0", "1", "2", "3", "4"}
IntOf(s) ==
  CASE s = "-1" -> -1
    [] s = "0" -> 0
    [] s = "1" -> 1
    [] s = "2" -> 2
    [] s = "3" -> 3
    [] s = "4" -> 4

\* ------------------------------------------------------------------ store
\* The handlers run on a record s of what one process sees: its collections,
\* the files, the clock, its output and its control state.
load_json(file, default) ==
  IF file.kind = "json" THEN [shape |-> file.shape, val |-> file.val] ELSE default

\* outcome: "ok", "denied" (open fails, the file is untouched) or "partial"
\* (the file was truncated by open and the dump failed part-way)
SaveOutcomes == {"ok", "denied", "partial"}

\* s.io logs what the file system did with each write of the current turn.
\* Variant: the IOError of a failed write is not caught.
save_json_raises(s, file, data, outcome) ==
  IF outcome = "ok"
  THEN [s EXCEPT ![file] = Dump(data), !.io = Append(@, <<file, outcome>>)]
  ELSE [s EXCEPT ![file] = IF outcome = "partial" THEN Malformed ELSE @,
                 !.io = Append(@, <<file, outcome>>),
                 !.failed = @ \cup {file},
                 !.pc = "crashed"]

save_json(s, file, data, outcome) ==
  IF outcome = "ok"
  THEN [s EXCEPT ![file] = Dump(data), !.io = Append(@, <<file, outcome>>)]
  ELSE [s EXCEPT ![file] = IF outcome = "partial" THEN Malformed ELSE @,
                 !.io = Append(@, <<file, outcome>>),
                 !.out = Append(@, "Error saving data"),
                 !.failed = @ \cup {file}]

\* An exception nothing catches: the process dies with a traceback.
Raise(s) == [s EXCEPT !.pc = "crashed"]

\* Variant: the history is cut to its last 100 entries before the append.
add_to_history_truncates_first(s, command, outcome) ==
  IF s.history.shape # "list" THEN Raise([s EXCEPT !.clock = @ + 1])
  ELSE
    LET kept == LastN(s.history.val, HistoryLimit)
        appended == Append(kept, [command |-> command, timestamp |-> s.clock])
        s1 == [s EXCEPT !.history = [shape |-> "list", val |-> appended], !.clock = @ + 1]
    IN save_json(s1, "history_file", s1.history, outcome)

add_to_history(s, command, outcome) ==
  IF s.history.shape # "list" THEN Raise([s EXCEPT !.clock = @ + 1])
  ELSE
    LET appended == Append(s.history.val, [command |-> command, timestamp |-> s.clock])
        kept == LastN(appended, HistoryLimit)
        s1 == [s EXCEPT !.history = [shape |-> "list", val |-> kept], !.clock = @ + 1]
    IN save_json(s1, "history_file", s1.history, outcome)

\* print(...)
Say(s, text) == [s EXCEPT !.out = Append(@, text)]

\* ------------------------------------------------------------------ notes
\* Variant: a title the notes already hold keeps its entry (setdefault).
note_add_keeps_first(s, args, outcome) ==
  IF Len(args) < 3 THEN Say(s, "Usage: note add <title> <content>")
  ELSE
    LET title == args[2]
        content == Join(SubSeq(args, 3, Len(args)))
        s1 == [s EXCEPT !.clock = @ + 1]
    IN IF s.notes.shape # "dict" THEN Raise(s1)
       ELSE
         LET old == s.notes.val
             new == [t \in (DOMAIN old) \cup {title} |->
                       IF t \in DOMAIN old THEN old[t]
                       ELSE [content |-> content, timestamp |-> s.clock]]
             s2 == [s1 EXCEPT !.notes = [shape |-> "dict", val |-> new]]
         IN Say(save_json(s2, "notes_file", s2.notes, outcome),
                "Note '" \o title \o "' added successfully")

note_add(s, args, outcome) ==
  IF Len(args) < 3 THEN Say(s, "Usage: note add <title> <content>")
  ELSE
    LET title == args[2]
        content == Join(SubSeq(args, 3, Len(args)))
        s1 == [s EXCEPT !.clock = @ + 1]
    IN IF s.notes.shape # "dict" THEN Raise(s1)
       ELSE
         LET old == s.notes.val
             new == [t \in (DOMAIN old) \cup {title} |->
                       IF t = title THEN [content |-> content, timestamp |-> s.clock]
                       ELSE old[t]]
             s2 == [s1 EXCEPT !.notes = [shape |-> "dict", val |-> new]]
         IN Say(save_json(s2, "notes_file", s2.notes, outcome),
                "Note '" \o title \o "' added successfully")

note_delete(s, args, outcome) ==
  IF Len(args) < 2 THEN Say(s, "Usage: note delete <title>")
  ELSE
    LET title == args[2]
        old == s.notes.val
    IN IF s.notes.shape = "dict" /\ title \in DOMAIN old
       THEN
         LET rest == (DOMAIN old) \ {title}
             new == IF rest = {} THEN <<>> ELSE [t \in rest |-> old[t]]
             s1 == [s EXCEPT !.notes = [shape |-> "dict", val |-> new]]
         IN Say(save_json(s1, "notes_file", s1.notes, outcome),
                "Note '" \o title \o "' deleted")
       ELSE Say(s, "Note '" \o title \o "' not found")

\* The printed listing is kept as one line; .items() on a list raises.
note_list(s) ==
  IF s.notes.val = <<>> THEN Say(s, "No notes found")
  ELSE IF s.notes.shape # "dict" THEN Raise(s)
  ELSE Say(s, "(notes)")

note_search(s, args) ==
  IF Len(args) < 2 THEN Say(s, "Usage: note search <keyword>")
  ELSE IF s.notes.shape # "dict" THEN Raise(s)
  ELSE Say(s, "(matching notes)")

note_manager(s, args, outcome) ==
  IF args = <<>> THEN Say(s, "Usage: note <add|list|delete|search> [arguments]")
  ELSE
    LET action == Lower(args[1])
    IN CASE action = "add" -> note_add(s, args, outcome)
         [] action = "list" -> note_list(s)
         [] action = "delete" -> note_delete(s, args, outcome)
         [] action = "search" -> note_search(s, args)
         [] OTHER -> s

\* ------------------------------------------------------------------ todos
\* the position of seq[i] for a Python index i (negative counts from the end);
\* 0 when i is out of range (IndexError)
PyIndex(seq, i) ==
  LET pos == IF i < 0 THEN Len(seq) + i + 1 ELSE i + 1
  IN IF pos \in 1..Len(seq) THEN pos ELSE 0

\* Variant: the lower bound of the range test is missing.
ValidTaskNum_no_lower_bound(task_num, n) == task_num < n

\* 0 <= task_num < len(self.todos)
ValidTaskNum(task_num, n) == 0 <= task_num /\ task_num < n

RemoveAt(seq, pos) == SubSeq(seq, 1, pos - 1) \o SubSeq(seq, pos + 1, Len(seq))

\* Variant: the new item is inserted at the front of the list.
todo_add_prepends(s, args, outcome) ==
  IF Len(args) < 2 THEN Say(s, "Usage: todo add <task description>")
  ELSE
    LET task == Join(Tail(args))
        todo_item == [task |-> task, done |-> FALSE, created |-> s.clock]
        s1 == [s EXCEPT !.clock = @ + 1]
    IN IF s.todos.shape # "list" THEN Raise(s1)
       ELSE
         LET s2 == [s1 EXCEPT !.todos = [shape |-> "list", val |-> <<todo_item>> \o s.todos.val]]
         IN Say(save_json(s2, "todos_file", s2.todos, outcome), "Todo added: " \o task)

todo_add(s, args, outcome) ==
  IF Len(args) < 2 THEN Say(s, "Usage: todo add <task description>")
  ELSE
    LET task == Join(Tail(args))
        todo_item == [task |-> task, done |-> FALSE, created |-> s.clock]
        s1 == [s EXCEPT !.clock = @ + 1]
    IN IF s.todos.shape # "list" THEN Raise(s1)
       ELSE
         LET s2 == [s1 EXCEPT !.todos = [shape |-> "list", val |-> Append(s.todos.val, todo_item)]]
         IN Say(save_json(s2, "todos_file", s2.todos, outcome), "Todo added: " \o task)

todo_list(s) ==
  IF s.todos.val = <<>> THEN Say(s, "No todos found")
  ELSE [s EXCEPT !.out = @ \o [i \in 1..Len(s.todos.val) |->
          ToString(i) \o ". " \o (IF s.todos.val[i].done THEN "v" ELSE "o")
            \o " " \o s.todos.val[i].task]]

\* Variant: the item is marked done and the list is not saved.
todo_done_unsaved(s, args, outcome) ==
  IF Len(args) < 2 THEN Say(s, "Usage: todo done <task_number>")
  ELSE IF args[2] \notin IntTokens THEN Say(s, "Task number must be a number")
  ELSE
    LET task_num == IntOf(args[2]) - 1
        pos == PyIndex(s.todos.val, task_num)
    IN IF ValidTaskNum(task_num, Len(s.todos.val))
       THEN IF pos = 0 THEN Raise(s)
            ELSE
              LET s1 == [s EXCEPT !.todos.val[pos].done = TRUE]
              IN Say(s1, "Todo marked as done: " \o s1.todos.val[pos].task)
       ELSE Say(s, "Invalid task number")

todo_done(s, args, outcome) ==
  IF Len(args) < 2 THEN Say(s, "Usage: todo done <task_number>")
  ELSE IF args[2] \notin IntTokens THEN Say(s, "Task number must be a number")
  ELSE
    LET task_num == IntOf(args[2]) - 1
        pos == PyIndex(s.todos.val, task_num)
    IN IF ValidTaskNum(task_num, Len(s.todos.val))
       THEN IF pos = 0 THEN Raise(s)
            ELSE
              LET s1 == [s EXCEPT !.todos.val[pos].done = TRUE]
              IN Say(save_json(s1, "todos_file", s1.todos, outcome),
                     "Todo marked as done: " \o s1.todos.val[pos].task)
       ELSE Say(s, "Invalid task number")

todo_delete(s, args, outcome) ==
  IF Len(args) < 2 THEN Say(s, "Usage: todo delete <task_number>")
  ELSE IF args[2] \notin IntTokens THEN Say(s, "Task number must be a number")
  ELSE
    LET task_num == IntOf(args[2]) - 1
        pos == PyIndex(s.todos.val, task_num)
    IN IF ValidTaskNum(task_num, Len(s.todos.val))
       THEN IF pos = 0 THEN Raise(s)
            ELSE
              LET deleted_task == s.todos.val[pos]
                  s1 == [s EXCEPT !.todos.val = RemoveAt(@, pos)]
              IN Say(save_json(s1, "todos_file", s1.todos, outcome),
                     "Todo deleted: " \o deleted_task.task)
       ELSE Say(s, "Invalid task number")

todo_manager(s, args, outcome) ==
  IF args = <<>> THEN Say(s, "Usage: todo <add|list|done|delete> [arguments]")
  ELSE
    LET action == Lower(args[1])
    IN CASE action = "add" -> todo_add(s, args, outcome)
         [] action = "list" -> todo_list(s)
         [] action = "done" -> todo_done(s, args, outcome)
         [] action = "delete" -> todo_delete(s, args, outcome)
         [] OTHER -> s

\* ------------------------------------------------------------------ other handlers
\* show_help, show_time, show_date, get_weather, system_info, clear_screen and
\* the handlers of the collaborators (calc, files, convert, search) print and
\* leave the collections alone.
show_info(s, command) == Say(s, "(" \o command \o ")")

show_history(s) ==
  IF s.history.val = <<>> THEN Say(s, "No command history")
  ELSE
    LET recent == LastN(s.history.val, 10)
    IN [s EXCEPT !.out = (@ \o <<"Recent commands:">>) \o
          [i \in 1..Len(recent) |-> ToString(i) \o ". " \o recent[i].command]]

exit_assistant(s) == [Say(s, "Goodbye!") EXCEPT !.pc = "exited"]

\* ------------------------------------------------------------------ dispatcher
commands == {"help", "time", "date", "weather", "calc", "note", "todo", "files",
             "system", "convert", "search", "history", "clear", "exit", "quit"}

\* command_line.strip().split(), then parts[0].lower(); "" stands for None
parse_command(parts) ==
  IF parts = <<>> THEN <<"", <<>>>> ELSE <<Lower(parts[1]), Tail(parts)>>

\* self.commands[command](args)
Handler(s, command, args, outcome) ==
  CASE command = "note" -> note_manager(s, args, outcome)
    [] command = "todo" -> todo_manager(s, args, outcome)
    [] command = "history" -> show_history(s)
    [] command \in {"exit", "quit"} -> exit_assistant(s)
    [] OTHER -> show_info(s, command)

\* f"{command} {' '.join(args)}"
CommandText(command, args) == command \o " " \o Join(args)

\* Variant: an unknown command is recorded in the history as well.
execute_command_records_unknown(s, command, args, hOutcome, outcome) ==
  LET s1 == add_to_history(s, CommandText(command, args), hOutcome)
  IN IF s1.pc = "crashed" THEN s1
     ELSE IF command \in commands THEN Handler(s1, command, args, outcome)
     ELSE Say(Say(s1, "Unknown command: " \o command), "Type 'help' for available commands")

\* Variant: the collections are read from the files again before every command.
execute_command_reloads(s, command, args, hOutcome, outcome) ==
  LET s0 == [s EXCEPT !.notes = load_json(s.notes_file, EmptyDict),
                      !.todos = load_json(s.todos_file, EmptyList),
                      !.history = load_json(s.history_file, EmptyList)]
  IN IF command \in commands
     THEN
       LET s1 == add_to_history(s0, CommandText(command, args), hOutcome)
       IN IF s1.pc = "crashed" THEN s1 ELSE Handler(s1, command, args, outcome)
     ELSE Say(Say(s0, "Unknown command: " \o command), "Type 'help' for available commands")

\* hOutcome: what the write of history.json does; outcome: what the handler's
\* write of its collection does
execute_command(s, command, args, hOutcome, outcome) ==
  IF command \in commands
  THEN
    LET s1 == add_to_history(s, CommandText(command, args), hOutcome)
    IN IF s1.pc = "crashed" THEN s1 ELSE Handler(s1, command, args, outcome)
  ELSE Say(Say(s, "Unknown command: " \o command), "Type 'help' for available commands")

\* ------------------------------------------------------------------ state
View(p) ==
  [pc |-> pc[p], command_line |-> command_line[p], notes |-> notes[p],
   todos |-> todos[p], history |-> history[p], out |-> out[p], io |-> io[p], notes_file |-> notesFile, todos_file |-> todosFile,
   history_file |-> historyFile, clock |-> clock, failed |-> failed]

Commit(p, s) ==
  /\ pc' = [pc EXCEPT ![p] = s.pc]
  /\ command_line' = [command_line EXCEPT ![p] = s.command_line]
  /\ notes' = [notes EXCEPT ![p] = s.notes]
  /\ todos' = [todos EXCEPT ![p] = s.todos]
  /\ history' = [history EXCEPT ![p] = s.history]
  /\ out' = [out EXCEPT ![p] = s.out]
  /\ io' = [io EXCEPT ![p] = s.io]
  /\ notesFile' = s.notes_file
  /\ todosFile' = s.todos_file
  /\ historyFile' = s.history_file
  /\ clock' = s.clock
  /\ failed' = s.failed

\* CLIAssistant(): the three collections are read once
load_data(s) ==
  [s EXCEPT !.notes = load_json(s.notes_file, EmptyDict),
            !.todos = load_json(s.todos_file, EmptyList),
            !.history = load_json(s.history_file, EmptyList)]

\* actor is the process whose turn of run() the last step was (0 when the
\* last step was none), and before is what that process saw when it had read
\* the line and not yet parsed it.
NoTurn == /\ actor' = 0
          /\ before' = [View(Main) EXCEPT !.pc = "none"]

Construct(p) ==
  /\ pc[p] = "new"
  /\ Commit(p, [load_data(View(p)) EXCEPT !.pc = "running"])
  /\ NoTurn

\* One turn of run(): a line is read, parsed and dispatched.
Step(p, parts, hOutcome, outcome, limit) ==
  /\ pc[p] = "running"
  /\ clock < limit
  /\ LET parsed == parse_command(parts)
         s0 == [View(p) EXCEPT !.command_line = parts, !.out = <<>>, !.io = <<>>]
     IN /\ Commit(p, IF parsed[1] = "" THEN s0
                     ELSE execute_command(s0, parsed[1], parsed[2], hOutcome, outcome))
        /\ actor' = p
        /\ before' = s0

NoteCommand(p, args, hOutcome, outcome, limit) ==
  /\ p \in Procs
  /\ Step(p, <<"note">> \o args, hOutcome, outcome, limit)

TodoCommand(p, args, hOutcome, outcome, limit) ==
  /\ p \in Procs
  /\ Step(p, <<"todo">> \o args, hOutcome, outcome, limit)

InfoCommand(p, name, hOutcome, limit) ==
  /\ Lower(name) \in commands \ {"note", "todo", "exit", "quit"}
  /\ Step(p, <<name>>, hOutcome, "ok", limit)

ExitCommand(p, hOutcome, limit) ==
  /\ p \in Procs
  /\ Step(p, <<"exit">>, hOutcome, "ok", limit)

UnknownCommand(p, parts, limit) ==
  /\ parts # <<>>
  /\ Lower(parts[1]) \notin commands
  /\ Step(p, parts, "ok", "ok", limit)

\* if not command_line: continue
BlankLine(p, limit) ==
  /\ p \in Procs
  /\ Step(p, <<>>, "ok", "ok", limit)

\* KeyboardInterrupt or EOFError at the prompt
Interrupt(p) ==
  /\ pc[p] = "running"
  /\ pc' = [pc EXCEPT ![p] = "exited"]
  /\ out' = [out EXCEPT ![p] = <<"Exiting...">>]
  /\ UNCHANGED <<command_line, io, notes, todos, history, notesFile, todosFile, historyFile, clock, failed>>
  /\ NoTurn

\* ------------------------------------------------------------------ data files at startup
OldNotes == [shape |-> "dict", val |-> [t \in {"b"} |-> [content |-> "old", timestamp |-> -1]]]
OldTodos == [shape |-> "list", val |-> <<[task |-> "old", done |-> FALSE, created |-> -1]>>]
OldHistory(n) ==
  [shape |-> "list",
   val |-> [i \in 1..n |-> [command |-> "time ", timestamp |-> i - n - 1]]]

InitWith(nf, tf, hf) ==
  /\ pc = [p \in Procs |-> "new"]
  /\ command_line = [p \in Procs |-> <<>>]
  /\ notes = [p \in Procs |-> EmptyDict]
  /\ todos = [p \in Procs |-> EmptyList]
  /\ history = [p \in Procs |-> EmptyList]
  /\ out = [p \in Procs |-> <<>>]
  /\ io = [p \in Procs |-> <<>>]
  /\ notesFile \in nf
  /\ todosFile \in tf
  /\ historyFile \in hf
  /\ clock = 0
  /\ failed = {}
  /\ actor = 0
  /\ before = [pc |-> "none", command_line |-> <<>>, notes |-> EmptyDict,
               todos |-> EmptyList, history |-> EmptyList, out |-> <<>>, io |-> <<>>,
               notes_file |-> notesFile, todos_file |-> todosFile,
               history_file |-> historyFile, clock |-> 0, failed |-> {}]

\* ------------------------------------------------------------------ one process, files as the program leaves them
Init ==
  InitWith({Missing, Dump(OldNotes)}, {Malformed, Dump(OldTodos)},
           {Missing, Dump(OldHistory(2))})

NoteArgs == {<<"add", "a", "x">>, <<"add", "a">>, <<"delete", "b">>}
TodoArgs == {<<"add", "t">>, <<"done", "1">>, <<"delete", "1">>}

Next ==
  \/ Construct(Main)
  \/ \E args \in NoteArgs, h \in SaveOutcomes, o \in SaveOutcomes :
       NoteCommand(Main, args, h, o, MaxClock)
  \/ \E args \in TodoArgs, h \in SaveOutcomes, o \in SaveOutcomes :
       TodoCommand(Main, args, h, o, MaxClock)
  \/ \E name \in {"Time", "history"}, h \in SaveOutcomes :
       InfoCommand(Main, name, h, MaxClock)
  \/ \E h \in SaveOutcomes : ExitCommand(Main, h, MaxClock)
  \/ \E parts \in {<<"frob">>, <<"frob", "x">>} : UnknownCommand(Main, parts, MaxClock)
  \/ BlankLine(Main, MaxClock)
  \/ Interrupt(Main)

Spec == Init /\ [][Next]_vars

\* ------------------------------------------------------------------ the last turn
\* The command and the arguments of the line the main process dispatched last.
Cmd == parse_command(command_line[Main])[1]
Args == parse_command(command_line[Main])[2]

\* The last step was a turn of run() of the main process that dispatched a command.
Dispatched == actor = Main /\ Cmd # ""

\* What the file system did with the turn's write of history.json, and with
\* its write of another file ("ok" when there was no such write).
WriteOf(files) ==
  LET ws == {io[Main][i] : i \in DOMAIN io[Main]}
  IN IF \E w \in ws : w[1] \in files
     THEN (CHOOSE w \in ws : w[1] \in files)[2]
     ELSE "ok"
HistoryWrite == WriteOf({"history_file"})
HandlerWrite == WriteOf({"notes_file", "todos_file"})

\* The entry the dispatch of the last line records.
Entry == [command |-> CommandText(Cmd, Args), timestamp |-> before.clock]

Min(a, b) == IF a <= b THEN a ELSE b

\* The history in memory is the last 100 elements of H ++ [e], H the history
\* before the turn and e the new entry: e is last, the entries before it are
\* the newest of H in their order, and the length is that of H plus one unless
\* that would exceed 100.
Last100OfAppended ==
  LET H == before.history.val
      R == history[Main].val
      n == Len(R)
  IN /\ n = Min(Len(H) + 1, HistoryLimit)
     /\ R[n] = Entry
     /\ \A i \in 1..(n - 1) : R[i] = H[Len(H) - (n - 1) + i]

\* Exactly one entry of the history in memory is the entry of the last turn.
AppendedOnce ==
  /\ Last100OfAppended
  /\ Cardinality({i \in DOMAIN history[Main].val : history[Main].val[i] = Entry}) = 1

\* C2 as stated: every dispatched command, an unknown one included, appends
\* exactly one entry "c <space-joined args>" to the history.
C2_EveryDispatchRecorded == Dispatched => AppendedOnce

\* C2 amended: a dispatched command whose name is registered appends exactly
\* one entry "c <space-joined args>" to the history, also when its handler
\* reports a usage or domain error; an unknown command leaves the history in
\* memory and on disk as it was.
C2_RegisteredRecorded ==
  Dispatched =>
    IF Cmd \in commands THEN AppendedOnce
    ELSE history[Main] = before.history /\ historyFile = before.history_file

\* A command that failed with a usage error is the last entry of the history.
C2_Witness ==
  /\ Dispatched
  /\ out[Main] = <<"Usage: note add <title> <content>">>
  /\ history[Main].val # <<>>
  /\ history[Main].val[Len(history[Main].val)].command = "note add a"

\* C7: after any completed command of a run in which no write failed, loading
\* each of the three files yields the collection held in memory.
C7_DiskEqualsMemory ==
  (pc[Main] \in {"running", "exited"} /\ failed = {}) =>
     /\ load_json(notesFile, EmptyDict) = notes[Main]
     /\ load_json(todosFile, EmptyList) = todos[Main]
     /\ load_json(historyFile, EmptyList) = history[Main]

\* Two mutations of two collections have been made and flushed.
C7_Witness ==
  /\ pc[Main] = "running"
  /\ failed = {}
  /\ todos[Main].val # <<>>
  /\ todos[Main].val[1].done
  /\ "a" \in DOMAIN notes[Main].val
  /\ notesFile = Dump(notes[Main])
  /\ todosFile = Dump(todos[Main])

\* The control state, the output, and the notes and todos in memory and on disk.
OtherThanHistory(s) ==
  <<s.pc, s.out, s.notes, s.notes_file, s.todos, s.todos_file>>

\* The three collections in memory, and the files other than the one the
\* handler of command c writes.
OtherThanWritten(s, c) ==
  <<s.notes, s.todos, s.history, s.history_file,
    IF c = "note" THEN s.todos_file ELSE s.notes_file,
    IF c \in {"note", "todo"} THEN s.history_file ELSE s.todos_file>>

\* C8: a failed write of one file is reported and changes nothing else.  When
\* the write of history.json fails, the handler runs as it would have, and
\* the notes and the todos, in memory and on disk, are those of the same
\* command with that write succeeding; when the handler's write of its own
\* file fails, the history and the other collection are those of the same
\* command with that write succeeding.
C8_IndependentPersistence ==
  (Dispatched /\ Cmd \in commands) =>
     /\ HistoryWrite # "ok" =>
          OtherThanHistory(View(Main)) =
            OtherThanHistory([execute_command(before, Cmd, Args, "ok", HandlerWrite)
                                EXCEPT !.out = <<"Error saving data">> \o @])
     /\ HandlerWrite # "ok" =>
          OtherThanWritten(View(Main), Cmd) =
            OtherThanWritten(execute_command(before, Cmd, Args, HistoryWrite, "ok"), Cmd)

\* The write of history.json failed, and the todo was added and saved.
C8_Witness ==
  /\ Dispatched
  /\ HistoryWrite # "ok"
  /\ out[Main] = <<"Error saving data", "Todo added: t">>
  /\ historyFile # Dump(history[Main])
  /\ todosFile = Dump(todos[Main])
  /\ todos[Main].val[Len(todos[Main].val)].task = "t"

\* ------------------------------------------------------------------ todo commands on a fresh installation
InitFresh == InitWith({Missing}, {Missing}, {Missing})

TaskNumbers == {"-1", "0", "1", "2"}
TodoAdds == {<<"add", "t">>, <<"add", "u", "v">>}
TodoOnlyArgs ==
  TodoAdds \cup {<<"Done", k>> : k \in TaskNumbers} \cup {<<"delete", k>> : k \in TaskNumbers}

NextTodo ==
  \/ Construct(Main)
  \/ \E args \in TodoOnlyArgs : TodoCommand(Main, args, "ok", "ok", MaxClockTodo)

SpecTodo == InitFresh /\ [][NextTodo]_vars

\* The last turn was "todo <action> <k>" with k a number.
TodoNumbered(action) ==
  /\ Dispatched
  /\ Cmd = "todo"
  /\ Len(Args) >= 2
  /\ Lower(Args[1]) = action
  /\ Args[2] \in IntTokens

\* C4: todo done k and todo delete k with k < 1 or k > N, N the length of the
\* todo list, leave the todos in memory and on disk and the notes as they
\* were, and report "Invalid task number".
C4_InvalidNumberChangesNothing ==
  \A action \in {"done", "delete"} :
    (/\ TodoNumbered(action)
     /\ (IntOf(Args[2]) < 1 \/ IntOf(Args[2]) > Len(before.todos.val))) =>
       /\ todos[Main] = before.todos
       /\ todosFile = before.todos_file
       /\ notes[Main] = before.notes
       /\ notesFile = before.notes_file
       /\ out[Main] = <<"Invalid task number">>

\* "todo done 0" on a list of two items.
C4_Witness ==
  /\ TodoNumbered("done")
  /\ Args[2] = "0"
  /\ Len(before.todos.val) = 2
  /\ todos[Main] = before.todos
  /\ out[Main] = <<"Invalid task number">>

\* The lines "todo add <task>" of the vocabulary, as the history records them.
AddTexts == {CommandText("todo", a) : a \in TodoAdds}

\* The run so far consists of todo add commands alone (the history of a fresh
\* installation lists every dispatched command).
OnlyAdds ==
  /\ pc[Main] = "running"
  /\ \A i \in DOMAIN history[Main].val : history[Main].val[i].command \in AddTexts

\* C6: from an empty list, N todo add commands give a list of exactly N items
\* in insertion order, none done; and for 1 <= k <= N, todo done k sets done
\* on the k-th item alone, and todo delete k removes the k-th item alone,
\* the other items keeping their order and their done flags.
C6_TodoListOrder ==
  LET old == before.todos.val
      new == todos[Main].val
      h == history[Main].val
  IN /\ OnlyAdds =>
          /\ Len(new) = Len(h)
          /\ \A i \in DOMAIN new :
               /\ h[i].command = "todo add " \o new[i].task
               /\ new[i].created = h[i].timestamp + 1
               /\ ~new[i].done
     /\ (TodoNumbered("done") /\ IntOf(Args[2]) \in 1..Len(old)) =>
          /\ Len(new) = Len(old)
          /\ \A i \in DOMAIN old :
               IF i = IntOf(Args[2])
               THEN new[i] = [task |-> old[i].task, done |-> TRUE, created |-> old[i].created]
               ELSE new[i] = old[i]
     /\ (TodoNumbered("delete") /\ IntOf(Args[2]) \in 1..Len(old)) =>
          /\ Len(new) = Len(old) - 1
          /\ \A i \in DOMAIN new :
               new[i] = IF i < IntOf(Args[2]) THEN old[i] ELSE old[i + 1]

\* Two todos were added to the empty list, and "todo delete 1" left the second.
C6_Witness ==
  /\ TodoNumbered("delete")
  /\ Args[2] = "1"
  /\ Len(before.todos.val) = 2
  /\ Len(history[Main].val) = 3
  /\ todos[Main].val = <<before.todos.val[2]>>
  /\ todos[Main].val[1].task = "u v"

\* ------------------------------------------------------------------ note add commands
\* The notes file is absent or holds a note "b" of an earlier run.
InitNote == InitWith({Missing, Dump(OldNotes)}, {Missing}, {Missing})

Titles == {"a", "b"}
Contents == {<<"x">>, <<"y", "z">>}
NoteAdds == {<<"ADD", t>> \o c : t \in Titles, c \in Contents}

NextNote ==
  \/ Construct(Main)
  \/ \E args \in NoteAdds \cup {<<"add", "a">>} :
       NoteCommand(Main, args, "ok", "ok", MaxClockNote)

SpecNote == InitNote /\ [][NextNote]_vars

\* The positions in the history of the commands "note ADD <title> <content>".
AddsOf(title) ==
  {i \in DOMAIN history[Main].val :
     \E c \in Contents :
       history[Main].val[i].command = CommandText("note", <<"ADD", title>> \o c)}

\* The note the command recorded at position i of the history must have stored.
NoteOf(title, i) ==
  LET e == history[Main].val[i]
      c == CHOOSE c \in Contents : e.command = CommandText("note", <<"ADD", title>> \o c)
  IN [content |-> Join(c), timestamp |-> e.timestamp + 1]

\* The last turn was "note add <title> <content>".
NoteAdded ==
  /\ Dispatched
  /\ Cmd = "note"
  /\ Len(Args) >= 3
  /\ Lower(Args[1]) = "add"

\* C5: after any sequence of note add commands the notes hold exactly one
\* entry for every title added, with the content and the timestamp of the
\* latest add of that title (a title never added is held only as a note of an
\* earlier run); and an add under one title leaves the entries of the other
\* titles as they were.
C5_LastWriteWins ==
  pc[Main] = "running" =>
    LET n == notes[Main].val
    IN /\ \A t \in Titles :
            IF AddsOf(t) # {}
            THEN /\ t \in DOMAIN n
                 /\ n[t] = NoteOf(t, CHOOSE i \in AddsOf(t) : \A j \in AddsOf(t) : j <= i)
            ELSE t \in DOMAIN n => n[t].timestamp < 0
       /\ DOMAIN n \subseteq Titles
       /\ NoteAdded =>
            /\ DOMAIN n = DOMAIN before.notes.val \cup {Args[2]}
            /\ \A u \in DOMAIN before.notes.val \ {Args[2]} : n[u] = before.notes.val[u]

\* "a" was added twice, with another title added in between; the notes hold
\* the second content of "a".
C5_Witness ==
  /\ pc[Main] = "running"
  /\ Cardinality(AddsOf("a")) = 2
  /\ AddsOf("b") # {}
  /\ notes[Main].val["a"].content = "y z"
  /\ \E i \in AddsOf("a") : history[Main].val[i].command = "note ADD a x"

\* ------------------------------------------------------------------ any parseable data files
\* Each file is absent, malformed, or any JSON text: a collection of the
\* wrong shape, or a history of 99, 100 or 101 entries.
InitAnyJson ==
  InitWith({Missing, Dump(EmptyList)}, {Malformed, Dump(EmptyDict)},
           {Missing, Dump(EmptyDict), Dump(OldHistory(HistoryLimit - 1)),
            Dump(OldHistory(HistoryLimit)), Dump(OldHistory(HistoryLimit + 1))})

NextAnyJson ==
  \/ Construct(Main)
  \/ \E args \in {<<"add", "a", "x">>, <<"search", "x">>, <<"list">>},
        h \in SaveOutcomes :
       NoteCommand(Main, args, h, "ok", MaxClockAny)
  \/ \E args \in {<<"add", "t">>, <<"done", "1">>, <<"list">>}, h \in SaveOutcomes :
       TodoCommand(Main, args, h, "ok", MaxClockAny)
  \/ \E name \in {"time", "history"}, h \in SaveOutcomes :
       InfoCommand(Main, name, h, MaxClockAny)
  \/ \E h \in SaveOutcomes : ExitCommand(Main, h, MaxClockAny)
  \/ UnknownCommand(Main, <<"frob">>, MaxClockAny)
  \/ Interrupt(Main)

SpecAnyJson == InitAnyJson /\ [][NextAnyJson]_vars

\* C1 as stated: once the assistant is constructed, the history in memory
\* and the persisted history.json each hold at most 100 entries.
C1_HistoryAtMost100 ==
  pc[Main] \in {"running", "exited"} =>
    /\ Len(history[Main].val) <= HistoryLimit
    /\ Len(historyFile.val) <= HistoryLimit

\* C3 as stated: no exception escapes load, save, a handler or execute_command;
\* the process ends only by exit/quit, an interrupt or end-of-input.
C3_NoErrorIsFatal == pc[Main] # "crashed"

\* The last turn recorded a command on a history that was a list.
Recorded == Dispatched /\ Cmd \in commands /\ before.history.shape = "list"

\* C9 as stated: recording on a history H yields the last 100 elements of
\* H ++ [e], and the persisted history equals this result.
C9_RecordedAndPersisted ==
  Recorded => (Last100OfAppended /\ historyFile = Dump(history[Main]))

\* C9 amended: recording on a history H yields the last 100 elements of
\* H ++ [e] (the new entry is last, the surviving entries keep their order,
\* entries are dropped only from the oldest end and only when the length would
\* exceed 100), and the persisted history equals this result unless the write
\* of history.json fails.
C9_Last100OfAppended ==
  Recorded =>
    /\ Last100OfAppended
    /\ HistoryWrite = "ok" => historyFile = Dump(history[Main])

\* A command was recorded on a history of 100 entries: the oldest was evicted.
C9_Witness ==
  /\ Recorded
  /\ Len(before.history.val) = HistoryLimit
  /\ Len(history[Main].val) = HistoryLimit
  /\ history[Main].val[1] = before.history.val[2]
  /\ historyFile = Dump(history[Main])

\* ------------------------------------------------------------------ two processes on the same files
NextTwo ==
  \/ \E p \in Procs : Construct(p)
  \/ \E p \in Procs, args \in {<<"add", "a", "x">>, <<"add", "b", "y">>} :
       NoteCommand(p, args, "ok", "ok", MaxClockTwo)
  \/ \E p \in Procs : TodoCommand(p, <<"add", "t">>, "ok", "ok", MaxClockTwo)
  \/ \E p \in Procs : InfoCommand(p, "time", "ok", MaxClockTwo)

SpecTwo == InitFresh /\ [][NextTwo]_vars

\* The three collections of s, in memory.
InMemory(s) == <<s.notes, s.todos, s.history>>

\* s with every data file absent.
WithoutFiles(s) ==
  [s EXCEPT !.notes_file = Missing, !.todos_file = Missing, !.history_file = Missing]

\* The file `file` names, and the collection it persists.
FileOf(file) ==
  CASE file = "notes_file" -> notesFile
    [] file = "todos_file" -> todosFile
    [] file = "history_file" -> historyFile
CollectionOf(p, file) ==
  CASE file = "notes_file" -> notes[p]
    [] file = "todos_file" -> todos[p]
    [] file = "history_file" -> history[p]

\* C10: the processes share the files without reading them again: a turn of
\* process p computes p's collections from p's collections alone, whatever the
\* files hold; every file it writes becomes the dump of p's whole collection
\* (last writer wins) and the other files stay as they were; and no step of
\* one process changes the collections another process holds.
C10_LastWriterWins ==
  /\ [](actor \in Procs =>
         LET c == parse_command(command_line[actor])[1]
             a == parse_command(command_line[actor])[2]
             written == {io[actor][i][1] : i \in DOMAIN io[actor]}
         IN /\ InMemory(View(actor)) =
                 InMemory(execute_command(WithoutFiles(before), c, a, "ok", "ok"))
            /\ \A f \in written : FileOf(f) = Dump(CollectionOf(actor, f))
            /\ \A f \in {"notes_file", "todos_file", "history_file"} \ written :
                 FileOf(f) = before[f])
  /\ [][\A q \in Procs :
          (pc[q] = "running" /\ actor' # q) => InMemory(View(q))' = InMemory(View(q))]_vars

\* A lost update: process 1 added note "a" and saved it, with no write
\* failing; then process 2, which had loaded the notes before, saved its own
\* notes: the file is the dump of process 2's notes and "a" is not in it.
C10_Witness ==
  /\ pc[1] = "running" /\ pc[2] = "running"
  /\ actor = 2
  /\ out[1] = <<"Note 'a' added successfully">>
  /\ io[1] = <<<<"history_file", "ok">>, <<"notes_file", "ok">>>>
  /\ "a" \in DOMAIN notes[1].val
  /\ "a" \in DOMAIN before.notes_file.val
  /\ notesFile = Dump(notes[2])
  /\ "a" \notin DOMAIN notesFile.val

====
